---- MODULE Spec2Model ----
(***************************************************************************)
(* One run of load_data() of src/app.py: the loop over the yearly CSV     *)
(* files, the "no data" halt, the concatenation and normalisation of the  *)
(* historical baseline, the live-feed block (fetch, normalise, watermark  *)
(* filter, merge, all inside one try/except) and the final object-to-str  *)
(* coercion before the table is returned.                                 *)
(*                                                                         *)
(* Cells.  Every cell of a table is a record [k, n, s]:                    *)
(*   k = "str"  a Python string.  n > 0: the ISO rendering of instant n   *)
(*              followed by the text s (s is the UTC-offset notation);     *)
(*              n = 0: the text s itself.                                  *)
(*   k = "int"  an integer n;  k = "num" a float64 holding n               *)
(*   k = "ts"   a pandas Timestamp at instant n, s = "UTC" or "" (naive)  *)
(*   k = "nan" | "none" | "nat" | "na"   NaN, None, NaT, pd.NA             *)
(* The cells of a numeric column share one dtype: all "int" (with "na" in  *)
(* an Int64 column), or all "num" with "nan" or "na" (Upcast).             *)
(* Instants are counted in months from January of BaseYear, so that       *)
(* .dt.year and .dt.month are computed and not guessed.                    *)
(***************************************************************************)
EXTENDS Integers, Sequences, FiniteSets, TLC

VARIABLES pc, i, store, dfs, df, feed, warnings, notices

vars == <<pc, i, store, dfs, df, feed, warnings, notices>>

\* Bounds of the model.
NumFiles == 2
MaxRecords == 3
MaxT == 2

\* First year of the yearly extracts ("2015.csv").
BaseYear == 2015

Cell(k, n, s) == [k |-> k, n |-> n, s |-> s]
NaN == Cell("nan", 0, "")
None == Cell("none", 0, "")
NaT == Cell("nat", 0, "")
NA == Cell("na", 0, "")
Str(n, s) == Cell("str", n, s)
IntCell(v) == Cell("int", v, "")
Num(v) == Cell("num", v, "")
Ts(n, tz) == Cell("ts", n, tz)

IsNull(c) == c.k \in {"nan", "none", "nat", "na"}

Digits == <<"0", "1", "2", "3", "4", "5", "6", "7", "8", "9">>

RECURSIVE SeqFilter(_, _)
SeqFilter(keep, s) ==
    IF s = <<>> THEN <<>>
    ELSE (IF keep[1] THEN <<Head(s)>> ELSE <<>>) \o SeqFilter(Tail(keep), Tail(s))

RECURSIVE Flatten(_)
Flatten(ss) == IF ss = <<>> THEN <<>> ELSE Head(ss) \o Flatten(Tail(ss))

SetMax(S) == CHOOSE x \in S : \A y \in S : y <= x

(***************************************************************************)
(* Conversions, each computed the way pandas computes it.                  *)
(***************************************************************************)

\* Index.str.strip().str.upper() on the spellings of a column name that the
\* sources use (lines 52 and 116).
StripUpper(name) ==
    CASE name = "SHOOTING" -> "SHOOTING"
      [] name = " Shooting " -> "SHOOTING"
      [] name = "shooting" -> "SHOOTING"
      [] OTHER -> name

\* Series.astype(str), element by element.  load_data casts no float64 cell to
\* str (HOUR, MONTH go through to_numeric or are left alone), so "num" cells
\* never reach it.
AsStr(c) ==
    CASE c.k = "str" -> c
      [] c.k = "nan" -> Str(0, "nan")
      [] c.k = "none" -> Str(0, "None")
      [] c.k = "nat" -> Str(0, "NaT")
      [] c.k = "na" -> Str(0, "<NA>")
      [] c.k = "int" -> Str(0, Digits[c.n + 1])
      [] c.k = "ts" -> Str(c.n, IF c.s = "UTC" THEN "+00:00" ELSE "")
      [] OTHER -> c

\* str.strip() on the texts the model uses.
StripText(s) ==
    CASE s = " Y " -> "Y"
      [] s = " " -> ""
      [] OTHER -> s

\* .str.replace(r"\+00(:00)?", "", regex=True).str.strip() (lines 74-75).
StripOffset(c) ==
    IF c.s \in {"+00", "+00:00"} THEN Str(c.n, "") ELSE Str(c.n, StripText(c.s))

\* pd.to_datetime(..., errors="coerce", utc=True) on one string (lines 79-83):
\* a date with no offset or a zero offset is that instant in UTC, anything
\* else ("nan", "NaT", other text) is NaT.
ToDatetimeUTC(c) ==
    IF c.k = "str" /\ c.n > 0 /\ c.s \in {"", "+00", "+00:00"}
    THEN Ts(c.n, "UTC") ELSE NaT

\* pd.to_datetime(..., errors="coerce") on one cell of the live feed (line
\* 119): no utc=True, so a string without offset parses to a naive timestamp.
ToDatetimeLive(c) ==
    IF c.k = "str" /\ c.n > 0 /\ c.s \in {"+00", "+00:00"} THEN Ts(c.n, "UTC")
    ELSE IF c.k = "str" /\ c.n > 0 /\ c.s = "" THEN Ts(c.n, "")
    ELSE NaT

\* .dt.year and .dt.month of one value (lines 86-87, 122-123): an integer for
\* a timestamp, NaN for NaT.
YearOf(c) == IF c.k = "ts" THEN IntCell(BaseYear + ((c.n - 1) \div 12)) ELSE NaN
MonthOf(c) == IF c.k = "ts" THEN IntCell(((c.n - 1) % 12) + 1) ELSE NaN

\* .astype("Int64") (line 91) on one cell of an integer or a float64 column.
ToInt64(c) == IF c.k \in {"int", "num"} THEN IntCell(c.n) ELSE NA

\* pd.to_numeric(..., errors="coerce") on one cell (lines 88, 124).
DigitValue(s) == CHOOSE v \in 0..9 : Digits[v + 1] = s
IsDigit(s) == \E v \in 0..9 : Digits[v + 1] = s
ToNumeric(c) ==
    CASE c.k \in {"int", "num"} -> c
      [] c.k = "str" /\ c.n = 0 /\ IsDigit(c.s) -> IntCell(DigitValue(c.s))
      [] OTHER -> NaN

\* The dtype of a numeric column is that of all its cells: a column that
\* holds a NaN or a float is float64 (Float64 when it also holds <NA>), and
\* its integers are floats (the results of lines 86-88 and 122-124, and the
\* common dtype pd.concat finds at line 145).
Column(rows, f) == [j \in 1..Len(rows) |-> rows[j][f]]
IsFloat(cells) == \E j \in 1..Len(cells) : cells[j].k \in {"nan", "num"}
AsFloat(c) == IF c.k = "int" THEN Num(c.n) ELSE c
Upcast(rows, f) ==
    LET rs == rows
    IN IF IsFloat(Column(rs, f))
       THEN [j \in 1..Len(rs) |-> [rs[j] EXCEPT ![f] = AsFloat(rs[j][f])]]
       ELSE rs

\* The mapping with the flags exchanged.
ShootingReplaceSwapped(s) ==
    CASE s = "Y" -> "0"
      [] s = "N" -> "1"
      [] s = "" -> "0"
      [] s = "nan" -> "0"
      [] OTHER -> s

\* The mapping written as .map({"Y": "1"}).fillna("0"): what is not "Y" is "0".
ShootingMapOnly(s) == IF s = "Y" THEN "1" ELSE "0"

\* .replace({"Y": "1", "N": "0", "": "0", "nan": "0"}) (lines 99, 131).
ShootingReplace(s) ==
    CASE s = "Y" -> "1"
      [] s = "N" -> "0"
      [] s = "" -> "0"
      [] s = "nan" -> "0"
      [] OTHER -> s

\* The string the chain astype(str).str.strip().replace(...).fillna("0")
\* hands to astype(int) for one cell (lines 96-100, 128-132); after
\* astype(str) no cell is NaN, so fillna changes nothing.
ShootingText(c) ==
    LET t == AsStr(c) IN
    IF t.n = 0 THEN Str(0, ShootingReplace(StripText(t.s))) ELSE t

\* astype(int) raises ValueError on a string that is not an integer literal.
IntCastable(c) == c.k = "str" /\ c.n = 0 /\ IsDigit(c.s)
ShootingInt(c) == IntCell(DigitValue(ShootingText(c).s))

(***************************************************************************)
(* Tables.  A row holds the cells of the columns load_data touches, one    *)
(* pass-through object column (DISTRICT) and src = <<file, index>>, the    *)
(* place the row came from (file 0 is the live feed).  A table is its rows *)
(* and whether it has a SHOOTING column.                                   *)
(***************************************************************************)

NoTable == [ok |-> FALSE, shootCol |-> "", rows |-> <<>>]
EmptyFrame == [hasShooting |-> FALSE, rows |-> <<>>]
NoFeed == [status |-> "none", missing |-> "", rows |-> <<>>]

RawRow(d, h, sh, di) ==
    [date |-> d, hour |-> h, shooting |-> sh, district |-> di,
     year |-> NaN, month |-> NaN]

Tag(rows, f) ==
    [j \in 1..Len(rows) |->
        [date |-> rows[j].date, hour |-> rows[j].hour,
         shooting |-> rows[j].shooting, district |-> rows[j].district,
         year |-> rows[j].year, month |-> rows[j].month, src |-> <<f, j>>]]

\* pd.concat(dfs, ignore_index=True) (line 68): the rows of the loaded files
\* in list order; the result has a SHOOTING column when any file has one, and
\* the rows of a file without it hold NaN there.
FileRows(t) ==
    [j \in 1..Len(t.rows) |->
        IF t.shootCol = "SHOOTING" THEN t.rows[j]
        ELSE [t.rows[j] EXCEPT !.shooting = NaN]]

ConcatNewestFirst(frames) ==
    [hasShooting |-> \E j \in 1..Len(frames) : frames[j].shootCol = "SHOOTING",
     rows |-> Flatten([j \in 1..Len(frames) |->
                         FileRows(frames[Len(frames) + 1 - j])])]

ConcatFrames(frames) ==
    [hasShooting |-> \E j \in 1..Len(frames) : frames[j].shootCol = "SHOOTING",
     rows |-> Flatten([j \in 1..Len(frames) |-> FileRows(frames[j])])]

\* Lines 71-105 on one row of the baseline; the dtypes of MONTH and HOUR are
\* those of their columns (NormalizeFrame).
NormalizeRow(r, hasShooting) ==
    LET d == ToDatetimeUTC(StripOffset(AsStr(r.date))) IN
    [r EXCEPT !.date = d,
              !.year = ToInt64(YearOf(d)),
              !.month = MonthOf(d),
              !.hour = ToNumeric(r.hour),
              !.shooting = IF hasShooting THEN ShootingInt(r.shooting)
                           ELSE IntCell(0)]

\* astype(int) at line 101 raises when some cell is no integer literal.
ShootingRaises(rows) ==
    \E j \in 1..Len(rows) : ~IntCastable(ShootingText(rows[j].shooting))

\* The normalisation followed by a dropna on the timestamp.
NormalizeFrameDropNaT(t) ==
    LET rows == [j \in 1..Len(t.rows) |-> NormalizeRow(t.rows[j], t.hasShooting)]
    IN [hasShooting |-> TRUE,
        rows |-> Upcast(Upcast(
                    SeqFilter([j \in 1..Len(rows) |-> rows[j].date # NaT], rows),
                    "month"), "hour")]

\* Lines 71-105 on the baseline: YEAR is Int64; MONTH is int32 when every
\* date parsed and float64 otherwise; HOUR is int64 when every HOUR is an
\* integer and float64 otherwise.
NormalizeFrame(t) ==
    [hasShooting |-> TRUE,
     rows |-> Upcast(Upcast(
                 [j \in 1..Len(t.rows) |-> NormalizeRow(t.rows[j], t.hasShooting)],
                 "month"), "hour")]

NormalizeFrameRaises(t) == t.hasShooting /\ ShootingRaises(t.rows)

\* df["OCCURRED_ON_DATE"].max() (line 137): NaT when every value is NaT.
LatestDate(rows) ==
    LET S == {rows[j].date.n : j \in {k \in 1..Len(rows) : rows[k].date.k = "ts"}}
    IN IF S = {} THEN NaT ELSE Ts(SetMax(S), "UTC")

\* Lines 119-134 on one record of the live feed; the dtypes of YEAR, MONTH and
\* HOUR are those of their columns (NormalizeLive).
NormalizeLiveRow(r) ==
    LET d == ToDatetimeLive(r.date) IN
    [r EXCEPT !.date = d,
              !.year = YearOf(d),
              !.month = MonthOf(d),
              !.hour = ToNumeric(r.hour),
              !.shooting = ShootingInt(r.shooting)]

\* Lines 119-134 on the records of the live feed: YEAR and MONTH are int32
\* when every timestamp parsed and float64 otherwise (no cast to Int64 here),
\* HOUR is int64 when every HOUR is an integer.
NormalizeLive(rows) ==
    Upcast(Upcast(Upcast(
        [j \in 1..Len(rows) |-> NormalizeLiveRow(Tag(rows, 0)[j])],
        "year"), "month"), "hour")

\* The dtype of the parsed live column: datetime64[ns, UTC] when the strings
\* carry an offset, datetime64[ns] (naive) otherwise.
LiveTz(rows) ==
    IF \E j \in 1..Len(rows) : ToDatetimeLive(rows[j].date) = Ts(rows[j].date.n, "UTC")
    THEN "UTC" ELSE ""

\* One element of df_live["OCCURRED_ON_DATE"] > latest_date (line 140): a
\* comparison with NaT on either side is False.
IsNotOlder(d, latest) == d.k = "ts" /\ latest.k = "ts" /\ d.n >= latest.n
IsNewer(d, latest) == d.k = "ts" /\ latest.k = "ts" /\ d.n > latest.n

KeepNewer(rows, latest) ==
    SeqFilter([j \in 1..Len(rows) |-> IsNewer(rows[j].date, latest)], rows)

\* Whether the try block of lines 108-145 raises: the request, the JSON
\* decoding or the lookup of result.records fails; the payload has no record
\* (the frame then has no columns) or lacks a column the block indexes; the
\* astype(int) of line 133 meets a string that is no integer literal; or line
\* 140 compares a naive column with the UTC-aware latest_date.
LiveRaisesOnRequestOnly(f, latest) ==
    \/ f.status # "ok"
    \/ f.rows = <<>>
    \/ ShootingRaises(f.rows)
    \/ latest.k = "ts" /\ LiveTz(f.rows) = ""

LiveRaises(f, latest) ==
    \/ f.status # "ok"
    \/ f.rows = <<>>
    \/ f.missing # ""
    \/ ShootingRaises(f.rows)
    \/ latest.k = "ts" /\ LiveTz(f.rows) = ""

\* pd.concat([df, df_live], ignore_index=True) (line 145): each column takes
\* the common dtype of its two parts.  YEAR stays Int64 when the live YEAR is
\* int32 and becomes Float64 when it is float64 (the feed held a NaT); MONTH
\* and HOUR are float64 when either part is.
AppendLive(t, rows) ==
    [t EXCEPT !.rows = Upcast(Upcast(Upcast(t.rows \o rows,
                                            "year"), "month"), "hour")]

\* Lines 108-145 when nothing raises.
MergeLive(t, f) ==
    LET live == NormalizeLive(f.rows)
        kept == KeepNewer(live, LatestDate(t.rows))
    IN IF Len(kept) > 0 THEN AppendLive(t, kept) ELSE t

\* select_dtypes(include=["object"]) (line 153) on the pass-through column: a
\* column whose cells are all NaN is float64, one that holds a string or a
\* None is object.
IsObjectColumn(rows) == \E j \in 1..Len(rows) : rows[j].district.k # "nan"

\* Lines 153-154: the column is cast to str when it is object-typed, and left
\* as it is otherwise.
StringifyObjects(t) ==
    IF IsObjectColumn(t.rows)
    THEN [t EXCEPT !.rows = [j \in 1..Len(t.rows) |->
                               [t.rows[j] EXCEPT !.district = AsStr(t.rows[j].district)]]]
    ELSE t

(***************************************************************************)
(* What the sources can answer.  A kind of frame is the spelling of the    *)
(* SHOOTING column and the set of rows the frame draws from; a kind of     *)
(* feed is the set of fields the payload may lack (missing), the timestamp *)
(* notations (sfx; a feed writes every timestamp with one notation), the   *)
(* instants (days), the SHOOTING and DISTRICT cells and the least number   *)
(* of records (lo).                                                        *)
(***************************************************************************)

SeqsUpTo(S, lo, hi) == UNION {[1..n -> S] : n \in lo..hi}

Junk == Str(0, "junk")
Offsets == {"", "+00", "+00:00"}

TableKind(name, Rows) == [name |-> name, rows |-> Rows]

Tables(Kinds, n) ==
    UNION {{[ok |-> TRUE, shootCol |-> kd.name, rows |-> r] :
               r \in SeqsUpTo(kd.rows, 1, n)} : kd \in Kinds}

FailedFeeds ==
    {[status |-> st, missing |-> "", rows |-> <<>>] :
        st \in {"request failed", "not JSON", "no result.records"}}

FeedKind(Missing, Sfx, Days, Shootings, Districts, lo) ==
    [missing |-> Missing, sfx |-> Sfx, days |-> Days, shootings |-> Shootings,
     districts |-> Districts, lo |-> lo]

LiveRows(kd, sfx) ==
    {RawRow(d, Str(0, "5"), sh, di) :
        d \in {Junk} \cup {Str(t, sfx) : t \in kd.days},
        sh \in kd.shootings, di \in kd.districts}

Feeds(Kinds, n) ==
    FailedFeeds
    \cup UNION {UNION {{[status |-> "ok", missing |-> m, rows |-> r] :
                          m \in kd.missing, r \in SeqsUpTo(LiveRows(kd, sfx), kd.lo, n)}
                       : sfx \in kd.sfx} : kd \in Kinds}

(***************************************************************************)
(* The run.  pc is the place load_data has reached, i the index of the     *)
(* file the loop of line 42 is at, store what each file of the bucket      *)
(* answered, dfs the list of loaded frames, df the frame being built, feed *)
(* what the live API answered, warnings the st.warning calls (the file     *)
(* index, 0 for the live feed) and notices the st.error/st.success calls.  *)
(***************************************************************************)

Init ==
    /\ pc = "load"
    /\ i = 1
    /\ store = [f \in 1..NumFiles |-> NoTable]
    /\ dfs = <<>>
    /\ df = EmptyFrame
    /\ feed = NoFeed
    /\ warnings = <<>>
    /\ notices = <<>>

TotalRows(frames) == Len(Flatten([j \in 1..Len(frames) |-> frames[j].rows]))

\* The bucket and the feed together hold at most MaxRecords records: the room
\* left when `held` of them have been read.
Room(held) == MaxRecords - held

\* One iteration of the loop of lines 42-60: read_csv either raises (the
\* warning of line 60) or gives a frame, whose column names are normalised
\* (line 52) and which is appended to dfs (line 55).  Kinds says which frames
\* the bucket can give.
LoadFile(Kinds) ==
    /\ pc = "load"
    /\ \E o \in Tables(Kinds, Room(TotalRows(dfs))) \cup {NoTable} :
          /\ store' = [store EXCEPT ![i] = o]
          /\ IF o.ok
             THEN /\ dfs' = Append(dfs, [file |-> i,
                                         shootCol |-> StripUpper(o.shootCol),
                                         rows |-> Tag(o.rows, i)])
                  /\ UNCHANGED warnings
             ELSE /\ warnings' = Append(warnings, i)
                  /\ UNCHANGED dfs
    /\ i' = i + 1
    /\ pc' = IF i = NumFiles THEN "check" ELSE "load"
    /\ UNCHANGED <<df, feed, notices>>

\* The run without the check of lines 63-65.
ContinueNoData ==
    /\ pc = "check"
    /\ dfs = <<>>
    /\ pc' = "normalize"
    /\ UNCHANGED <<i, store, dfs, df, feed, warnings, notices>>

\* Lines 63-65: no file loaded, st.error and st.stop().
StopNoData ==
    /\ pc = "check"
    /\ dfs = <<>>
    /\ notices' = Append(notices, "error")
    /\ pc' = "halted"
    /\ UNCHANGED <<i, store, dfs, df, feed, warnings>>

\* Line 68.
ConcatFiles ==
    /\ pc = "check"
    /\ dfs # <<>>
    /\ df' = ConcatFrames(dfs)
    /\ pc' = "normalize"
    /\ UNCHANGED <<i, store, dfs, feed, warnings, notices>>

\* Lines 70-105; the ValueError of astype(int) is caught by nothing.
NormalizeHistorical ==
    /\ pc = "normalize"
    /\ IF NormalizeFrameRaises(df)
       THEN pc' = "raised" /\ UNCHANGED df
       ELSE pc' = "live" /\ df' = NormalizeFrame(df)
    /\ UNCHANGED <<i, store, dfs, feed, warnings, notices>>

\* Lines 107-150: the whole try block and its handler.  Kinds says which
\* answers the live API can give.
LiveBlock(Kinds) ==
    /\ pc = "live"
    /\ \E f \in Feeds(Kinds, Room(Len(df.rows))) :
          /\ feed' = f
          /\ IF LiveRaises(f, LatestDate(df.rows))
             THEN /\ warnings' = Append(warnings, 0)
                  /\ UNCHANGED <<df, notices>>
             ELSE /\ df' = MergeLive(df, f)
                  /\ notices' = IF Len(MergeLive(df, f).rows) > Len(df.rows)
                                THEN Append(notices, "success") ELSE notices
                  /\ UNCHANGED warnings
    /\ pc' = "finalize"
    /\ UNCHANGED <<i, store, dfs>>

\* Lines 152-157.
Finalize ==
    /\ pc = "finalize"
    /\ df' = StringifyObjects(df)
    /\ pc' = "returned"
    /\ UNCHANGED <<i, store, dfs, feed, warnings, notices>>

\* The watermark runs: the dates vary, the other columns are well-formed.
DateRows ==
    {RawRow(d, IntCell(5), Str(0, "N"), Str(0, "B2")) :
        d \in {Junk} \cup {Str(t, "") : t \in 1..MaxT}}
DateTables == {TableKind("SHOOTING", DateRows)}
DateFeeds ==
    {FeedKind({""}, Offsets, 1..(MaxT + 1), {Str(0, "N")}, {Str(0, "B2")}, 0),
     FeedKind({"OCCURRED_ON_DATE", "HOUR", "SHOOTING"}, {"+00"}, {MaxT + 1},
              {Str(0, "N")}, {Str(0, "B2")}, 1)}

Next ==
    \/ LoadFile(DateTables)
    \/ StopNoData
    \/ ConcatFiles
    \/ NormalizeHistorical
    \/ LiveBlock(DateFeeds)
    \/ Finalize

Spec == Init /\ [][Next]_vars

\* The shooting runs: the SHOOTING cells and the presence and spelling of the
\* column vary, the dates are well-formed and the live records are new.
ShootingRows ==
    {RawRow(Str(1, ""), IntCell(5), sh, Str(0, "B2")) :
        sh \in {Str(0, "Y"), Str(0, "N"), NaN, Str(0, "maybe")}}
NoShootingRows == {RawRow(Str(1, ""), IntCell(5), NaN, Str(0, "B2"))}
ShootingTables ==
    {TableKind(" Shooting ", ShootingRows), TableKind("LOCATION", NoShootingRows)}
LiveShootings ==
    {Str(0, "Y"), Str(0, "N"), Str(0, ""), Str(0, "nan"), None, Str(0, "2")}
ShootingFeeds ==
    {FeedKind({""}, {"+00"}, {MaxT + 1}, LiveShootings, {Str(0, "B2")}, 1),
     FeedKind({"SHOOTING"}, {"+00"}, {MaxT + 1}, {None}, {Str(0, "B2")}, 1)}

NextShooting ==
    \/ LoadFile(ShootingTables)
    \/ StopNoData
    \/ ConcatFiles
    \/ NormalizeHistorical
    \/ LiveBlock(ShootingFeeds)
    \/ Finalize

SpecShooting == Init /\ [][NextShooting]_vars

\* The normalisation runs: the notation of the dates, the HOUR cells and the
\* pass-through column vary.
NormalizeRows ==
    {RawRow(d, o[1], o[2], o[3]) :
        d \in {NaN, Junk, Str(1, "+00"), Str(MaxT, "+00:00")},
        o \in {<<IntCell(5), Str(0, "Y"), Str(0, "B2")>>,
               <<Junk, Str(0, " Y "), NaN>>}}
NormalizeTables == {TableKind("shooting", NormalizeRows)}
NormalizeFeeds ==
    {FeedKind({""}, {"+00:00"}, {MaxT + 1}, {Str(0, "Y")}, {None}, 1)}

NextNormalize ==
    \/ LoadFile(NormalizeTables)
    \/ StopNoData
    \/ ConcatFiles
    \/ NormalizeHistorical
    \/ LiveBlock(NormalizeFeeds)
    \/ Finalize

SpecNormalize == Init /\ [][NextNormalize]_vars

(***************************************************************************)
(* What the properties speak of: the inputs as the sources gave them, and  *)
(* the rows of the frame by origin.                                        *)
(***************************************************************************)

Built == pc \in {"live", "finalize", "returned"}
AfterLive == pc \in {"finalize", "returned"}
Returned == pc = "returned"

SrcOf(rows) == [j \in 1..Len(rows) |-> rows[j].src]
Raw(src) ==
    IF src[1] = 0 THEN feed.rows[src[2]] ELSE store[src[1]].rows[src[2]]

\* The places of the rows of the files that loaded, in file-list order.
LoadedSrc ==
    Flatten([f \in 1..NumFiles |->
                IF store[f].ok THEN [j \in 1..Len(store[f].rows) |-> <<f, j>>]
                ELSE <<>>])
FailedFiles == {f \in 1..NumFiles : f < i /\ ~store[f].ok}
IsFromFile(r) == r.src[1] # 0
IsFromFeed(r) == r.src[1] = 0
FileRowsOf(t) == SelectSeq(t.rows, IsFromFile)
FeedRowsOf(t) == SelectSeq(t.rows, IsFromFeed)

\* A cell that holds a valid timestamp, with or without a zero UTC offset.
ValidStamp(c) == c.k = "str" /\ c.n > 0 /\ c.s \in Offsets
BaselineStamps ==
    UNION {{store[f].rows[j].date.n :
               j \in {k \in 1..Len(store[f].rows) : ValidStamp(store[f].rows[k].date)}}
           : f \in 1..NumFiles}
HasWatermark == BaselineStamps # {}
Watermark == SetMax(BaselineStamps)
FeedAnswered == feed.status = "ok" /\ feed.missing = "" /\ feed.rows # <<>>
FeedIdx == 1..Len(feed.rows)

(***************************************************************************)
(* Watermark properties (specification Spec).                              *)
(***************************************************************************)

\* C1: with D the largest valid OCCURRED_ON_DATE of the baseline, no live
\* record dated D or earlier is in the table after the live block: every row
\* that came from the feed is dated strictly after D, and when every live
\* record is dated D or earlier the table has exactly the baseline's rows.
WatermarkDedup ==
    AfterLive =>
        /\ \A j \in 1..Len(df.rows) :
              IsFromFeed(df.rows[j]) =>
                 /\ HasWatermark
                 /\ ValidStamp(Raw(df.rows[j].src).date)
                 /\ Raw(df.rows[j].src).date.n > Watermark
                 /\ df.rows[j].date = Ts(Raw(df.rows[j].src).date.n, "UTC")
        /\ (HasWatermark /\ \A k \in FeedIdx :
               ValidStamp(feed.rows[k].date) => feed.rows[k].date.n <= Watermark)
             => SrcOf(df.rows) = LoadedSrc

\* A returned table that kept one live record and discarded another one
\* dated at or before the watermark.
WatermarkDedupWitness ==
    /\ Returned
    /\ FeedRowsOf(df) # <<>>
    /\ \E k \in FeedIdx :
          ValidStamp(feed.rows[k].date) /\ feed.rows[k].date.n <= Watermark

\* C2: whenever the feed is fetched and parsed, every live record with a
\* valid timestamp after the baseline maximum D is appended exactly once
\* after the baseline rows, whatever notation the feed writes timestamps in
\* (the case of a baseline with no valid date is C3's).
WatermarkComplete ==
    (Returned /\ FeedAnswered /\ HasWatermark) =>
        LET new == {k \in FeedIdx : ValidStamp(feed.rows[k].date)
                                    /\ feed.rows[k].date.n > Watermark}
        IN /\ Len(df.rows) = Len(LoadedSrc) + Cardinality(new)
           /\ \A k \in new :
                 Cardinality({j \in 1..Len(df.rows) : df.rows[j].src = <<0, k>>}) = 1
           /\ \A j \in 1..Len(LoadedSrc) : df.rows[j].src = LoadedSrc[j]

\* C3: when every OCCURRED_ON_DATE of the baseline is null the watermark is
\* minus infinity: every live record with a valid timestamp is appended.
NullWatermark ==
    (Returned /\ FeedAnswered /\ ~HasWatermark) =>
        \A k \in FeedIdx :
            ValidStamp(feed.rows[k].date) =>
                \E j \in 1..Len(df.rows) : df.rows[j].src = <<0, k>>

(***************************************************************************)
(* Source failures (specification Spec).                                   *)
(***************************************************************************)

AllAttempted == i = NumFiles + 1
NoneLoaded == AllAttempted /\ \A f \in 1..NumFiles : ~store[f].ok

\* C4: when every historical file fails to load the run halts with the "no
\* data" error before anything is normalised, requested from the live API or
\* merged, and no table is returned.
TotalFailureHalts ==
    /\ NoneLoaded =>
          /\ pc \in {"check", "halted"}
          /\ df = EmptyFrame
          /\ feed = NoFeed
          /\ warnings = [f \in 1..NumFiles |-> f]
          /\ pc = "halted" => notices = <<"error">>
    /\ pc = "halted" => NoneLoaded

\* The run halted on the error.
TotalFailureWitness == pc = "halted" /\ notices = <<"error">>

\* C5: when some but not all files fail, each failed file gives one warning,
\* every file is still attempted, and the baseline is the concatenation of
\* the loaded files in file-list order, their rows in their own order and
\* none dropped or duplicated by the normalisation.
RowsAsLoaded ==
    \A j \in 1..Len(df.rows) :
        /\ df.rows[j].date = Raw(df.rows[j].src).date
        /\ df.rows[j].hour = Raw(df.rows[j].src).hour
        /\ df.rows[j].district = Raw(df.rows[j].src).district

PartialFailureRecovered ==
    (pc \in {"normalize", "raised", "live", "finalize", "returned"}) =>
        /\ AllAttempted
        /\ SelectSeq(warnings, LAMBDA w : w # 0)
             = SelectSeq([f \in 1..NumFiles |-> f], LAMBDA f : ~store[f].ok)
        /\ SrcOf(FileRowsOf(df)) = LoadedSrc
        /\ \A j \in 1..Len(LoadedSrc) : df.rows[j].src = LoadedSrc[j]
        /\ Len(FileRowsOf(df))
             = Len(Flatten([f \in 1..NumFiles |-> store[f].rows]))
        /\ pc = "normalize" => RowsAsLoaded

\* A returned table built from a file that loaded after another one failed.
PartialFailureWitness ==
    /\ Returned
    /\ \E f \in 1..NumFiles, g \in 1..NumFiles :
          f < g /\ ~store[f].ok /\ store[g].ok /\ Len(store[g].rows) > 1
    /\ Len(FileRowsOf(df)) > 1

\* C6: a failure of the live request, of the JSON decoding, of the lookup of
\* result.records or of any step of the live normalisation and filtering
\* gives a warning and a table whose rows are exactly the normalised
\* baseline: no live row is merged in.
BaselineOnly ==
    /\ ~NormalizeFrameRaises(ConcatFrames(dfs))
    /\ df = IF Returned
            THEN StringifyObjects(NormalizeFrame(ConcatFrames(dfs)))
            ELSE NormalizeFrame(ConcatFrames(dfs))
    /\ SrcOf(df.rows) = LoadedSrc

LiveFailureKeepsBaseline ==
    AfterLive =>
        /\ (feed.status # "ok" \/ feed.missing # "" \/ feed.rows = <<>>)
              => (warnings # <<>> /\ warnings[Len(warnings)] = 0)
        /\ (warnings # <<>> /\ warnings[Len(warnings)] = 0)
              => (BaselineOnly /\ notices = <<>>)

\* A table returned after the live payload lacked an expected field.
LiveFailureWitness ==
    /\ Returned
    /\ feed.status = "ok" /\ feed.missing = "HOUR"
    /\ warnings # <<>> /\ warnings[Len(warnings)] = 0
    /\ df.rows # <<>>

(***************************************************************************)
(* The shooting flag (specification SpecShooting).                         *)
(***************************************************************************)

\* The SHOOTING cell a row had in its source; Absent when the source has no
\* SHOOTING column under any spelling.
Absent == Cell("absent", 0, "")
RawShooting(src) ==
    IF src[1] # 0 /\ StripUpper(store[src[1]].shootCol) # "SHOOTING"
    THEN Absent ELSE Raw(src).shooting
StatedEncodings == {Str(0, "Y"), Str(0, "N"), Str(0, ""), Str(0, "nan"), NaN, None, Absent}
FlagOf(c) == IF c = Str(0, "Y") THEN 1 ELSE 0

\* The rows of the returned table: each has an integer SHOOTING, and a row
\* whose source wrote "Y", "N", "", "nan" or null, or had no SHOOTING column,
\* has 1 for "Y" and 0 for the rest.
ShootingTotal ==
    Returned =>
        \A j \in 1..Len(df.rows) :
            /\ df.hasShooting
            /\ df.rows[j].shooting.k = "int"
            /\ RawShooting(df.rows[j].src) \in StatedEncodings
                  => df.rows[j].shooting = IntCell(FlagOf(RawShooting(df.rows[j].src)))

\* A returned table with a "Y" row, a row of a file without the column and a
\* live row whose flag was the empty string.
ShootingTotalWitness ==
    /\ Returned
    /\ \E j \in 1..Len(df.rows) :
          RawShooting(df.rows[j].src) = Str(0, "Y") /\ df.rows[j].shooting = IntCell(1)
    /\ \E j \in 1..Len(df.rows) : RawShooting(df.rows[j].src) = Absent
    /\ \E j \in 1..Len(df.rows) :
          IsFromFeed(df.rows[j]) /\ RawShooting(df.rows[j].src) = Str(0, "")

\* The SHOOTING cell of record k of the live payload; Absent when the payload
\* has no SHOOTING field.
LiveShooting(k) ==
    IF feed.missing = "SHOOTING" THEN Absent ELSE feed.rows[k].shooting

\* The live API answered with records that lack no field but, possibly,
\* SHOOTING, and every flag is one of the stated encodings.
LiveStated ==
    /\ feed.status = "ok" /\ feed.rows # <<>>
    /\ feed.missing \in {"", "SHOOTING"}
    /\ \A k \in FeedIdx : LiveShooting(k) \in StatedEncodings

\* C7: the shooting mapping is total over every source, historical or live.
\* Every row of the returned table has an integer SHOOTING that is 1 for "Y"
\* and 0 for "N", "", "nan", null and a missing column; and a live feed whose
\* flags are all of these encodings, or which has no SHOOTING field, is
\* normalised: each of its records dated after the baseline maximum is in
\* the returned table with that flag.
ShootingTotalEverySource ==
    /\ ShootingTotal
    /\ (Returned /\ LiveStated /\ HasWatermark) =>
          \A k \in FeedIdx :
              (ValidStamp(feed.rows[k].date) /\ feed.rows[k].date.n > Watermark) =>
                  \E j \in 1..Len(df.rows) :
                      /\ df.rows[j].src = <<0, k>>
                      /\ df.rows[j].shooting = IntCell(FlagOf(LiveShooting(k)))

\* C8: a shooting value that is none of "Y", "N", "" and "nan" becomes 0: it
\* never makes the normalisation raise, and the flag of its row is 0.
UnmappedDefaultsToZero ==
    /\ pc # "raised"
    /\ Returned =>
          \A j \in 1..Len(df.rows) :
              RawShooting(df.rows[j].src) \notin StatedEncodings
                 => df.rows[j].shooting = IntCell(0)

(***************************************************************************)
(* Normalisation (specification SpecNormalize).                            *)
(***************************************************************************)

RowsInFiles == Len(Flatten([f \in 1..NumFiles |-> store[f].rows]))
Undated(r) == ~ValidStamp(Raw(r.src).date)
Unparsable(r) == Raw(r.src).date.k = "str" /\ Undated(r)

\* C9 as claimed: a historical row whose OCCURRED_ON_DATE cannot be parsed
\* stays in the table, with OCCURRED_ON_DATE, YEAR, MONTH and HOUR all null.
UnparsableNullsAll ==
    Built =>
        /\ Len(FileRowsOf(df)) = RowsInFiles
        /\ \A j \in 1..Len(df.rows) :
              (IsFromFile(df.rows[j]) /\ Unparsable(df.rows[j])) =>
                  /\ df.rows[j].date = NaT
                  /\ IsNull(df.rows[j].year) /\ IsNull(df.rows[j].month)
                  /\ IsNull(df.rows[j].hour)

\* C9 as amended: a historical row whose OCCURRED_ON_DATE cannot be parsed (or
\* is missing) stays in the table with OCCURRED_ON_DATE, YEAR and MONTH null;
\* HOUR is not derived from the timestamp, it is the row's own HOUR field as a
\* number (an integer or a float, as its column is), null only when that field
\* is not numeric.
UnparsableKeepsRow ==
    Built =>
        /\ Len(FileRowsOf(df)) = RowsInFiles
        /\ SrcOf(FileRowsOf(df)) = LoadedSrc
        /\ \A j \in 1..Len(df.rows) :
              (IsFromFile(df.rows[j]) /\ Undated(df.rows[j])) =>
                  /\ df.rows[j].date = NaT
                  /\ df.rows[j].year = NA /\ df.rows[j].month = NaN
                  /\ AsFloat(df.rows[j].hour)
                        = IF Raw(df.rows[j].src).hour.k = "int"
                          THEN Num(Raw(df.rows[j].src).hour.n) ELSE NaN

\* A returned table with a row whose date was unparsable text and whose HOUR
\* field was a number, and another whose HOUR field was text.
UnparsableWitness ==
    /\ Returned
    /\ \E j \in 1..Len(df.rows) :
          /\ Raw(df.rows[j].src).date = Junk
          /\ Raw(df.rows[j].src).hour = IntCell(5)
          /\ IsFromFile(df.rows[j])
    /\ \E j \in 1..Len(df.rows) :
          /\ Raw(df.rows[j].src).date = Junk
          /\ Raw(df.rows[j].src).hour = Junk
          /\ IsFromFile(df.rows[j])

\* Lines 70-105 followed by lines 152-154.
Normalized(t) == StringifyObjects(NormalizeFrame(t))

\* The table holds no row of a feed that wrote an unparsable timestamp.
NoLiveNaT ==
    FeedRowsOf(df) = <<>> \/ \A k \in FeedIdx : ValidStamp(feed.rows[k].date)

\* C10: the normalisation steps applied twice give what they give applied
\* once: the column names are left as they are; so is the frame that lines
\* 70-105 made of the concatenated files; the steps applied to the table
\* after the merge and to the returned table give a table that they leave as
\* it is, and they leave those two tables as they are when no live YEAR or
\* MONTH was made float64 by an unparsable live timestamp.
NormalizeIdempotent ==
    /\ \A j \in 1..Len(dfs) : StripUpper(dfs[j].shootCol) = dfs[j].shootCol
    /\ pc = "live" =>
          /\ ~NormalizeFrameRaises(df)
          /\ NormalizeFrame(df) = df
    /\ AfterLive =>
          LET once == NormalizeFrame(df)
              out == StringifyObjects(once)
          IN /\ ~NormalizeFrameRaises(df)
             /\ ~NormalizeFrameRaises(out)
             /\ Normalized(out) = out
             /\ (pc = "finalize" /\ NoLiveNaT) => once = df
             /\ (Returned /\ NoLiveNaT) => out = df

\* A returned table with a dated row, an undated one whose pass-through cell
\* was null, a flag of 1 and a merged live row.
NormalizeIdempotentWitness ==
    /\ Returned
    /\ \E j \in 1..Len(df.rows) :
          /\ IsFromFile(df.rows[j])
          /\ df.rows[j].date.k = "ts"
          /\ df.rows[j].shooting = IntCell(1)
    /\ \E j \in 1..Len(df.rows) :
          df.rows[j].date = NaT /\ Raw(df.rows[j].src).district = NaN
    /\ \E j \in 1..Len(df.rows) : IsFromFeed(df.rows[j])


(***************************************************************************)
(* Completion of the run (specification SpecShooting).                     *)
(***************************************************************************)

SomeLoaded == AllAttempted /\ \E f \in 1..NumFiles : store[f].ok

\* C11: in every run where at least one historical file loads, load_data
\* goes on to its return statement: it neither halts on the "no data" error
\* nor ends on an exception that nothing catches, and each place short of the
\* return has a next step.
OnlyTotalFailureHalts ==
    SomeLoaded =>
        /\ pc \in {"check", "normalize", "live", "finalize", "returned"}
        /\ pc = "check" => dfs # <<>>
        /\ pc = "returned" => SrcOf(FileRowsOf(df)) = LoadedSrc

====
